---- MODULE Spec2Model ----
(***************************************************************************)
(* Reconciliation of LXD storage pools (lxd_storage_pool.py) and storage   *)
(* volumes (lxd_storage_volume.py): one invocation of the module is one    *)
(* run(); the remote LXD server is the only durable state.                 *)
(*                                                                         *)
(* Python values are modelled as follows.  A dict is a function whose      *)
(* DOMAIN is its key set; an option of module.params left unset (None) is  *)
(* a key missing from params.  A string that ends up in a URL is a         *)
(* sequence of one-character strings, so that quoting is computed and the  *)
(* empty string is <<>> (falsy in Python).  A URL is the sequence of the   *)
(* pieces the f-strings concatenate.                                       *)
(***************************************************************************)
EXTENDS Integers, Sequences, FiniteSets, TLC

VARIABLES
    kind,         \* which module runs: "pool" or "volume"
    params,       \* module.params (unset options are missing keys)
    check_mode,   \* module.check_mode of the current invocation
    remote,       \* the resource on the LXD server
    pc,           \* position inside run()
    config,       \* self.config
    actions,      \* self.actions
    diff,         \* self.diff
    old_json,     \* self.old_pool_json / self.old_volume_json
    old_state,    \* self.old_state ("unset" before the fetch)
    calls,        \* requests the client received in this invocation
    report,       \* what exit_json / fail_json was given
    invocation,   \* how many times the module has been invoked so far
    history       \* the previous invocation (none for the first)

vars == <<kind, params, check_mode, remote, pc, config, actions, diff,
          old_json, old_state, calls, report, invocation, history>>

(***************************************************************************)
(* Bounds of the model.                                                    *)
(***************************************************************************)
MaxRuns == 2        \* invocations in a row against the same server
NumValues == 2      \* distinct values a desired config key may take

(***************************************************************************)
(* Dicts.                                                                  *)
(***************************************************************************)
EmptyDict == [k \in {} |-> 0]

Put(d, k, v) == [x \in (DOMAIN d) \cup {k} |-> IF x = k THEN v ELSE d[x]]

Restrict(d, ks) == [x \in (DOMAIN d) \cap ks |-> d[x]]

\* every dict with keys among ks and values among vs
Dicts(ks, vs) == UNION {[s -> vs] : s \in SUBSET ks}

(***************************************************************************)
(* Program constants.                                                      *)
(***************************************************************************)
STORAGE_STATES == {"present", "absent"}

Pool_CONFIG_PARAMS == <<"config", "description", "driver">>

Volume_CONFIG_PARAMS == <<"config", "description">>

LXD_API_STORAGE_POOLS_ENDPOINT == <<"/1.0/storage-pools">>

(***************************************************************************)
(* Strings and URLs.                                                       *)
(***************************************************************************)
\* characters urllib leaves alone ("_.-~" and alphanumerics)
Unreserved ==
    {"a", "b", "c", "d", "e", "f", "g", "h", "i", "j", "k", "l", "m",
     "n", "o", "p", "q", "r", "s", "t", "u", "v", "w", "x", "y", "z",
     "0", "1", "2", "3", "4", "5", "6", "7", "8", "9",
     "_", ".", "-", "~"}

\* percent-encoding of the reserved characters the model uses
PercentEncoded(c) ==
    CASE c = "/" -> <<"%", "2", "F">>
      [] c = "?" -> <<"%", "3", "F">>
      [] c = "&" -> <<"%", "2", "6">>
      [] c = "=" -> <<"%", "3", "D">>
      [] c = " " -> <<"%", "2", "0">>
      [] OTHER   -> <<"%", "X", "X">>

\* urllib.parse.quote(s, safe="")
RECURSIVE quote(_)
quote(s) ==
    IF s = <<>> THEN <<>>
    ELSE (IF Head(s) \in Unreserved THEN <<Head(s)>> ELSE PercentEncoded(Head(s)))
         \o quote(Tail(s))

\* urllib.parse.quote_plus(s): as quote, but a space becomes "+"
RECURSIVE quote_plus(_)
quote_plus(s) ==
    IF s = <<>> THEN <<>>
    ELSE (IF Head(s) \in Unreserved THEN <<Head(s)>>
          ELSE IF Head(s) = " " THEN <<"+">>
          ELSE PercentEncoded(Head(s)))
         \o quote_plus(Tail(s))

\* urllib.parse.urlencode of the (key, value) pairs in insertion order
RECURSIVE urlencode(_)
urlencode(pairs) ==
    IF pairs = <<>> THEN <<>>
    ELSE <<Head(pairs)[1], "=">> \o quote_plus(Head(pairs)[2])
         \o (IF Tail(pairs) = <<>> THEN <<>> ELSE <<"&">> \o urlencode(Tail(pairs)))

\* Python truthiness of an optional string option
Truthy(d, k) == k \in DOMAIN d /\ d[k] # <<>>

\* url_params of the create and migrate requests, then "?" and the query
WithQuery(url, pairs) == IF pairs = <<>> THEN url ELSE url \o <<"?">> \o urlencode(pairs)

ProjectParam == IF Truthy(params, "project") THEN << <<"project", params.project>> >> ELSE <<>>

\* faulty variant: the target is left out of the create request
TargetParam_Dropped == <<>>

TargetParam == IF Truthy(params, "target") THEN << <<"target", params.target>> >> ELSE <<>>

\* faulty variant: the target is sent with every request for the pool
Pool_resource_url_WithTarget ==
    WithQuery(LXD_API_STORAGE_POOLS_ENDPOINT \o <<"/">> \o quote(params.name),
              TargetParam \o ProjectParam)

\* f"{LXD_API_STORAGE_POOLS_ENDPOINT}/{quote(self.name, safe='')}" plus the project
Pool_resource_url ==
    WithQuery(LXD_API_STORAGE_POOLS_ENDPOINT \o <<"/">> \o quote(params.name), ProjectParam)

\* f"/1.0/storage-pools/{self.pool}/volumes/{self.volume_type}"
Volume_collection_path ==
    <<"/1.0/storage-pools/">> \o params.pool \o <<"/volumes/", params.type>>

\* f"/1.0/storage-pools/{self.pool}/volumes/{self.volume_type}/{self.name}"
Volume_resource_path == Volume_collection_path \o <<"/">> \o params.name

Volume_resource_url == WithQuery(Volume_resource_path, ProjectParam)

(***************************************************************************)
(* The object's helpers.                                                   *)
(***************************************************************************)
\* faulty variant: an option the caller left unset is defaulted to an empty value
RECURSIVE build_config_Defaulted(_, _)
build_config_Defaulted(attrs, p) ==
    IF attrs = <<>> THEN EmptyDict
    ELSE LET rest == build_config_Defaulted(Tail(attrs), p)
         IN  IF Head(attrs) \in DOMAIN p THEN Put(rest, Head(attrs), p[Head(attrs)])
             ELSE Put(rest, Head(attrs), IF Head(attrs) = "config" THEN EmptyDict ELSE "")

\* _build_config: only the options the caller supplied
RECURSIVE build_config(_, _)
build_config(attrs, p) ==
    IF attrs = <<>> THEN EmptyDict
    ELSE LET rest == build_config(Tail(attrs), p)
         IN  IF Head(attrs) \in DOMAIN p THEN Put(rest, Head(attrs), p[Head(attrs)])
             ELSE rest

CONFIG_PARAMS == IF kind = "pool" THEN Pool_CONFIG_PARAMS ELSE Volume_CONFIG_PARAMS

\* faulty variant: a resource found without a config mapping counts as absent
json_to_module_state_ConfigRequired(resp_json) ==
    IF resp_json.type = "error" THEN "absent"
    ELSE IF "config" \in DOMAIN resp_json.metadata THEN "present" ELSE "absent"

\* faulty variant: every response is taken for "not found"
json_to_module_state_AlwaysAbsent(resp_json) == "absent"

\* _pool_json_to_module_state / _volume_json_to_module_state
json_to_module_state(resp_json) ==
    IF resp_json.type = "error" THEN "absent" ELSE "present"

\* self.old_*_json.get("metadata", {})
old_metadata == IF "metadata" \in DOMAIN old_json THEN old_json.metadata ELSE EmptyDict

\* the update of body_json["config"] by self.config["config"].items()
Merge(old, new) ==
    [k \in (DOMAIN old) \cup (DOMAIN new) |-> IF k \in DOMAIN new THEN new[k] ELSE old[k]]

(***************************************************************************)
(* Pool: the decisions and the PUT body.                                   *)
(***************************************************************************)
\* faulty variant: the config mapping is compared wholesale, not key by key
Pool_needs_to_change_config_Wholesale(key) ==
    IF key \notin DOMAIN config THEN FALSE
    ELSE IF key \in DOMAIN old_metadata
         THEN config[key] # old_metadata[key]
         ELSE TRUE

Pool_needs_to_change_config(key) ==
    IF key \notin DOMAIN config THEN FALSE
    ELSE IF key = "config"
         THEN LET old_config == IF "config" \in DOMAIN old_metadata
                                THEN old_metadata.config ELSE EmptyDict
              IN  \E k \in DOMAIN config.config :
                      IF k \in DOMAIN old_config
                      THEN old_config[k] # config.config[k] ELSE TRUE
         ELSE IF key \in DOMAIN old_metadata
              THEN config[key] # old_metadata[key]
              ELSE TRUE        \* old_configs is None

\* faulty variant: the configuration is applied whether or not a key differs
Pool_needs_to_apply_configs_Always == TRUE

\* faulty variant: the driver is compared like any other key
Pool_needs_to_apply_configs_DriverCompared ==
    \E i \in 1..Len(Pool_CONFIG_PARAMS) :
        Pool_needs_to_change_config(Pool_CONFIG_PARAMS[i])

Pool_needs_to_apply_configs ==
    \E i \in 1..Len(Pool_CONFIG_PARAMS) :
        /\ Pool_CONFIG_PARAMS[i] # "driver"
        /\ Pool_needs_to_change_config(Pool_CONFIG_PARAMS[i])

\* faulty variant: the driver is carried and overridden like any other key
Pool_body_step_DriverOverridden(body_json, param) ==
    LET carried == IF param \in DOMAIN old_metadata
                   THEN Put(body_json, param, old_metadata[param]) ELSE body_json
    IN  IF ~Pool_needs_to_change_config(param) THEN carried
        ELSE IF param = "config"
             THEN Put(carried, "config",
                      Merge(IF "config" \in DOMAIN carried THEN carried.config ELSE EmptyDict,
                            config.config))
             ELSE Put(carried, param, config[param])

\* one iteration of the loop of _apply_storage_pool_configs
Pool_body_step(body_json, param) ==
    LET carried == IF param \in DOMAIN old_metadata
                   THEN Put(body_json, param, old_metadata[param]) ELSE body_json
    IN  IF param = "driver" THEN carried
        ELSE IF ~Pool_needs_to_change_config(param) THEN carried
        ELSE IF param = "config"
             THEN Put(carried, "config",
                      Merge(IF "config" \in DOMAIN carried THEN carried.config ELSE EmptyDict,
                            config.config))
             ELSE Put(carried, param, config[param])

RECURSIVE Pool_body_loop(_, _)
Pool_body_loop(body_json, todo) ==
    IF todo = <<>> THEN body_json
    ELSE Pool_body_loop(Pool_body_step(body_json, Head(todo)), Tail(todo))

\* faulty variant: the body starts from the whole observed metadata
Pool_body_json_WholeMetadata == Pool_body_loop(old_metadata, Pool_CONFIG_PARAMS)

\* body_json = {}, then the loop over CONFIG_PARAMS
Pool_body_json == Pool_body_loop(EmptyDict, Pool_CONFIG_PARAMS)

(***************************************************************************)
(* Volume: the decisions and the PUT body.                                 *)
(***************************************************************************)
\* faulty variant: a volume whose metadata carries no location is migrated
Volume_needs_to_migrate_volume_LocationUnchecked ==
    IF ~Truthy(params, "target") THEN FALSE
    ELSE IF "location" \in DOMAIN old_metadata
         THEN old_metadata.location # params.target
         ELSE TRUE

Volume_needs_to_migrate_volume ==
    IF ~Truthy(params, "target") THEN FALSE
    ELSE /\ "location" \in DOMAIN old_metadata
         /\ old_metadata.location # <<>>
         /\ old_metadata.location # params.target

\* faulty variant: a supplied config key the observed config lacks is not a change
Volume_needs_to_change_config_MissingIgnored(key) ==
    IF key \notin DOMAIN config THEN FALSE
    ELSE IF key = "config"
         THEN LET old_config == IF "config" \in DOMAIN old_metadata
                                THEN old_metadata.config ELSE EmptyDict
              IN  \E k \in DOMAIN config.config :
                      IF k \in DOMAIN old_config
                      THEN old_config[k] # config.config[k] ELSE FALSE
         ELSE IF key \in DOMAIN old_metadata
              THEN config[key] # old_metadata[key]
              ELSE TRUE

Volume_needs_to_change_config(key) ==
    IF key \notin DOMAIN config THEN FALSE
    ELSE IF key = "config"
         THEN LET old_config == IF "config" \in DOMAIN old_metadata
                                THEN old_metadata.config ELSE EmptyDict
              IN  \E k \in DOMAIN config.config :
                      IF k \in DOMAIN old_config
                      THEN old_config[k] # config.config[k] ELSE TRUE
         ELSE IF key \in DOMAIN old_metadata
              THEN config[key] # old_metadata[key]
              ELSE TRUE        \* old_configs is None

\* faulty variant: the configuration is applied whether or not a key differs
Volume_needs_to_apply_configs_Always == TRUE

Volume_needs_to_apply_configs ==
    \E i \in 1..Len(Volume_CONFIG_PARAMS) :
        Volume_needs_to_change_config(Volume_CONFIG_PARAMS[i])

\* faulty variant: a changed config mapping replaces the observed one wholesale
Volume_body_step_Replace(body_json, param) ==
    LET carried == IF param \in DOMAIN old_metadata
                   THEN Put(body_json, param, old_metadata[param]) ELSE body_json
    IN  IF ~Volume_needs_to_change_config(param) THEN carried
        ELSE Put(carried, param, config[param])

\* one iteration of the loop of _apply_storage_volume_configs
Volume_body_step(body_json, param) ==
    LET carried == IF param \in DOMAIN old_metadata
                   THEN Put(body_json, param, old_metadata[param]) ELSE body_json
    IN  IF ~Volume_needs_to_change_config(param) THEN carried
        ELSE IF param = "config"
             THEN Put(carried, "config",
                      Merge(IF "config" \in DOMAIN carried THEN carried.config ELSE EmptyDict,
                            config.config))
             ELSE Put(carried, param, config[param])

RECURSIVE Volume_body_loop(_, _)
Volume_body_loop(body_json, todo) ==
    IF todo = <<>> THEN body_json
    ELSE Volume_body_loop(Volume_body_step(body_json, Head(todo)), Tail(todo))

Volume_body_json == Volume_body_loop(EmptyDict, Volume_CONFIG_PARAMS)

(***************************************************************************)
(* body_json["config"] and old_metadata["config"] are one dict object, and *)
(* old_metadata is the object diff["before"] refers to: the in-place       *)
(* update of body_json["config"] is seen through all of them.              *)
(***************************************************************************)
AliasedOldJson(body_json, changed) ==
    IF changed /\ "config" \in DOMAIN old_metadata
    THEN [old_json EXCEPT !.metadata = Put(old_metadata, "config", body_json.config)]
    ELSE old_json

\* faulty variant: diff["after"] is left at the desired configuration
DiffAfterApply_AfterKept(body_json, changed) ==
    [before |-> IF old_state = "present"
                THEN (IF "metadata" \in DOMAIN old_json
                      THEN AliasedOldJson(body_json, changed).metadata ELSE EmptyDict)
                ELSE diff.before,
     after  |-> config]

\* self.diff after _apply_*_configs: "before" still names old_metadata's object
DiffAfterApply(body_json, changed) ==
    [before |-> IF old_state = "present"
                THEN (IF "metadata" \in DOMAIN old_json
                      THEN AliasedOldJson(body_json, changed).metadata ELSE EmptyDict)
                ELSE diff.before,
     after  |-> body_json]

(***************************************************************************)
(* The server.  A write that succeeds has the effect the API documents: a  *)
(* created resource holds the submitted body (and lives on the target, if  *)
(* one was given), a PUT replaces the writable fields by the body, a       *)
(* migration moves the volume to the target, a DELETE removes it.          *)
(***************************************************************************)
Absent == [present |-> FALSE, metadata |-> EmptyDict]

Mutable == {"config", "description"}

RemoteAfterCreate(body) ==
    [present  |-> TRUE,
     metadata |-> IF Truthy(params, "target") THEN Put(body, "location", params.target)
                  ELSE body]

RemoteAfterPut(body) ==
    [present  |-> TRUE,
     metadata |-> Merge(Restrict(remote.metadata, (DOMAIN remote.metadata) \ Mutable), body)]

RemoteAfterMigrate ==
    [present |-> TRUE, metadata |-> Put(remote.metadata, "location", params.target)]

\* the response of do("GET", url, ok_error_codes=[404]) when it does not raise
GetResponse ==
    IF remote.present THEN [type |-> "sync", metadata |-> remote.metadata]
    ELSE [type |-> "error", error_code |-> 404]

\* what the client was asked: do(method, url) and do(method, url, body_json)
Request(method, url, ok) == [method |-> method, url |-> url, ok |-> ok]

RequestWithBody(method, url, body, ok) ==
    [method |-> method, url |-> url, body |-> body, ok |-> ok]

\* faulty variant: the requests are sent in check mode too
dry_run_Ignored == FALSE

\* self.module.check_mode, as each operation tests it before its request
dry_run == check_mode

\* faulty variant: the action is logged only when its request was sent
append_action_OnlyWhenSent(action) == IF check_mode THEN actions ELSE Append(actions, action)

\* faulty variant: the action replaces the log
append_action_Replace(action) == <<action>>

\* faulty variant: the action is logged twice
append_action_Twice(action) == Append(Append(actions, action), action)

\* faulty variant: the action is put at the head of the log
append_action_AtHead(action) == <<action>> \o actions

\* self.actions.append(action), the statement after each request
append_action(action) == Append(actions, action)

(***************************************************************************)
(* Reports.                                                                *)
(***************************************************************************)
NoReport == [via |-> "none"]

\* a message: its fixed text and the values formatted into it
Message(text, args) == [text |-> text, args |-> args]

\* e.msg, the message of the LXDClientException the client raised
Exception_msg == Message("LXDClientException", <<>>)

\* the message of fail_json in _create_storage_pool
DriverRequired_msg == Message("driver is required when creating a storage pool", <<>>)

\* e.msg of the LXDClientException that LXDClient(...) raised in __init__
Construction_msg == Message("LXDClientException (LXDClient)", <<>>)

\* the message of the failure AnsibleModule reports for an option that the
\* argument_spec does not declare
Unsupported_msg == Message("Unsupported parameters", <<>>)

\* faulty variant: a failure always reports changed = FALSE
LxdFailure_Unchanged(d) ==
    [via     |-> "fail_json",
     msg     |-> Exception_msg,
     changed |-> FALSE,
     actions |-> actions,
     diff    |-> d]

\* faulty variant: a failure reports its message alone
LxdFailure_MessageOnly(d) == [via |-> "fail_json", msg |-> Exception_msg]

\* the except branch of run(): _fail_from_lxd_exception / fail_params
LxdFailure(d) ==
    [via     |-> "fail_json",
     msg     |-> Exception_msg,
     changed |-> Len(actions) > 0,
     actions |-> actions,
     diff    |-> d]

Finished == pc \in {"exited", "failed"}

\* the run ended in an exception nothing handles: the interpreter prints a
\* traceback and no report is produced
Unhandled(error) == [via |-> "traceback", error |-> error]

Crashed == pc = "crashed"

(***************************************************************************)
(* main(): AnsibleModule checks the options against the argument_spec     *)
(* before the management object is built and run.                          *)
(***************************************************************************)
Pool_argument_spec ==
    {"name", "project", "driver", "config", "description", "state", "target",
     "url", "snap_url", "client_key", "client_cert", "trust_password"}

Volume_argument_spec ==
    {"name", "pool", "project", "type", "content_type", "config", "description",
     "state", "target", "url", "snap_url", "client_key", "client_cert",
     "trust_password"}

argument_spec == IF kind = "pool" THEN Pool_argument_spec ELSE Volume_argument_spec

\* every option of the invocation is declared by the argument_spec
Supported == DOMAIN params \subseteq argument_spec

\* AnsibleModule(argument_spec=...) fails the invocation: no object is built,
\* run() is never entered
UnsupportedParameters ==
    /\ pc = "run"
    /\ ~Supported
    /\ pc' = "failed"
    /\ report' = [via |-> "fail_json", msg |-> Unsupported_msg]
    /\ UNCHANGED <<kind, params, check_mode, remote, config, actions, diff,
                   old_json, old_state, calls, invocation, history>>

(***************************************************************************)
(* __init__: LXDClient(...) raises LXDClientException.                     *)
(***************************************************************************)
\* the pool's except branch calls _fail_from_lxd_exception, which reads
\* self.actions before __init__ has assigned it: AttributeError, raised
\* inside the handler
Pool_construction_failure == Unhandled("AttributeError")

\* the volume's except branch: self.module.fail_json(msg=e.msg)
Volume_construction_failure == [via |-> "fail_json", msg |-> Construction_msg]

ClientConstructionFails ==
    /\ pc = "run"
    /\ Supported
    /\ IF kind = "pool"
       THEN /\ report' = Pool_construction_failure
            /\ pc' = IF report'.via = "traceback" THEN "crashed" ELSE "failed"
       ELSE /\ report' = Volume_construction_failure
            /\ pc' = "failed"
    /\ UNCHANGED <<kind, params, check_mode, remote, config, actions, diff,
                   old_json, old_state, calls, invocation, history>>

(***************************************************************************)
(* run(): authentication and the fetch.                                    *)
(***************************************************************************)
\* faulty variant: the client authenticates in every run
trust_password_is_not_None_Always == TRUE

\* if self.trust_password is not None: the test that guards authenticate
trust_password_is_not_None == "trust_password" \in DOMAIN params

Authenticate ==
    /\ pc = "run"
    /\ Supported
    /\ trust_password_is_not_None
    /\ \E ok \in BOOLEAN :
        /\ calls' = Append(calls, [method |-> "authenticate", ok |-> ok])
        /\ IF ok
           THEN pc' = "authenticated" /\ report' = report
           ELSE pc' = "failed" /\ report' = LxdFailure(diff)
    /\ UNCHANGED <<kind, params, check_mode, remote, config, actions, diff,
                   old_json, old_state, invocation, history>>

ResourceUrl == IF kind = "pool" THEN Pool_resource_url ELSE Volume_resource_url

\* _get_storage_*_json, then old_state and the diff set-up of run()
Fetch ==
    /\ \/ pc = "authenticated"
       \/ pc = "run" /\ Supported /\ ~trust_password_is_not_None
    /\ \E ok \in BOOLEAN :
        /\ calls' = Append(calls,
               IF ok THEN [method |-> "GET", url |-> ResourceUrl, ok |-> ok,
                           response |-> GetResponse]
               ELSE Request("GET", ResourceUrl, ok))
        /\ IF ok
           THEN /\ old_json' = GetResponse
                /\ old_state' = json_to_module_state(GetResponse)
                /\ diff' = [before |-> IF json_to_module_state(GetResponse) = "present"
                                       THEN GetResponse.metadata ELSE EmptyDict,
                            after  |-> config]
                /\ pc' = "fetched"
                /\ report' = report
           ELSE /\ pc' = "failed"
                /\ report' = LxdFailure(diff)
                /\ UNCHANGED <<old_json, old_state, diff>>
    /\ UNCHANGED <<kind, params, check_mode, remote, config, actions, invocation, history>>

(***************************************************************************)
(* Pool: _manage_state and the operations it calls.                        *)
(***************************************************************************)
Pool_create_url == WithQuery(LXD_API_STORAGE_POOLS_ENDPOINT, TargetParam \o ProjectParam)

\* faulty variant: a pool without a driver is created with the driver "dir"
Pool_create_body_DefaultDriver ==
    IF "driver" \in DOMAIN config THEN Put(config, "name", params.name)
    ELSE Put(Put(config, "name", params.name), "driver", "dir")

\* config = self.config.copy(); config["name"] = self.name
Pool_create_body == Put(config, "name", params.name)

Pool_create_storage_pool ==
    /\ kind = "pool" /\ pc = "fetched"
    /\ params.state = "present" /\ old_state = "absent"
    /\ IF "driver" \notin DOMAIN Pool_create_body
       THEN /\ pc' = "failed"
            /\ report' = [via |-> "fail_json", msg |-> DriverRequired_msg]
            /\ UNCHANGED <<calls, remote, actions>>
       ELSE IF dry_run
       THEN /\ actions' = append_action("create")
            /\ pc' = "managed"
            /\ UNCHANGED <<calls, remote, report>>
       ELSE \E ok \in BOOLEAN :
            /\ calls' = Append(calls,
                   RequestWithBody("POST", Pool_create_url, Pool_create_body, ok))
            /\ IF ok
               THEN /\ remote' = RemoteAfterCreate(Pool_create_body)
                    /\ actions' = append_action("create")
                    /\ pc' = "managed"
                    /\ report' = report
               ELSE /\ pc' = "failed"
                    /\ report' = LxdFailure(diff)
                    /\ UNCHANGED <<remote, actions>>
    /\ UNCHANGED <<kind, params, check_mode, config, diff, old_json, old_state, invocation, history>>

Pool_delete_storage_pool ==
    /\ kind = "pool" /\ pc = "fetched"
    /\ params.state = "absent" /\ old_state = "present"
    /\ IF dry_run
       THEN /\ actions' = append_action("delete")
            /\ pc' = "managed"
            /\ UNCHANGED <<calls, remote, report>>
       ELSE \E ok \in BOOLEAN :
            /\ calls' = Append(calls, Request("DELETE", Pool_resource_url, ok))
            /\ IF ok
               THEN /\ remote' = Absent
                    /\ actions' = append_action("delete")
                    /\ pc' = "managed"
                    /\ report' = report
               ELSE /\ pc' = "failed"
                    /\ report' = LxdFailure(diff)
                    /\ UNCHANGED <<remote, actions>>
    /\ UNCHANGED <<kind, params, check_mode, config, diff, old_json, old_state, invocation, history>>

Pool_apply_storage_pool_configs ==
    /\ kind = "pool" /\ pc = "fetched"
    /\ params.state = "present" /\ old_state # "absent"
    /\ Pool_needs_to_apply_configs
    /\ LET body_json == Pool_body_json
           changed   == Pool_needs_to_change_config("config")
       IN  /\ old_json' = AliasedOldJson(body_json, changed)
           /\ diff' = DiffAfterApply(body_json, changed)
           /\ IF dry_run
              THEN /\ actions' = append_action("apply_configs")
                   /\ pc' = "managed"
                   /\ UNCHANGED <<calls, remote, report>>
              ELSE \E ok \in BOOLEAN :
                   /\ calls' = Append(calls,
                          RequestWithBody("PUT", Pool_resource_url, body_json, ok))
                   /\ IF ok
                      THEN /\ remote' = RemoteAfterPut(body_json)
                           /\ actions' = append_action("apply_configs")
                           /\ pc' = "managed"
                           /\ report' = report
                      ELSE /\ pc' = "failed"
                           /\ report' = LxdFailure(DiffAfterApply(body_json, changed))
                           /\ UNCHANGED <<remote, actions>>
    /\ UNCHANGED <<kind, params, check_mode, config, old_state, invocation, history>>

\* _manage_state returns without calling anything (or has returned)
Pool_manage_state_returns ==
    \/ pc = "managed"
    \/ /\ pc = "fetched"
       /\ \/ params.state = "present" /\ old_state # "absent" /\ ~Pool_needs_to_apply_configs
          \/ params.state = "absent" /\ old_state # "present"

(***************************************************************************)
(* Volume: _manage_state and the operations it calls.                      *)
(***************************************************************************)
Volume_create_url == WithQuery(Volume_collection_path, TargetParam \o ProjectParam)

Volume_create_body ==
    LET c1 == IF "config" \in DOMAIN config
              THEN Put(EmptyDict, "config", config.config) ELSE EmptyDict
        c2 == IF "description" \in DOMAIN config
              THEN Put(c1, "description", config.description) ELSE c1
    IN  Put(Put(Put(c2, "name", params.name), "type", params.type),
            "content_type", params.content_type)

Volume_create_storage_volume ==
    /\ kind = "volume" /\ pc = "fetched"
    /\ params.state = "present" /\ old_state = "absent"
    /\ IF dry_run
       THEN /\ actions' = append_action("create")
            /\ pc' = "managed"
            /\ UNCHANGED <<calls, remote, report>>
       ELSE \E ok \in BOOLEAN :
            /\ calls' = Append(calls,
                   RequestWithBody("POST", Volume_create_url, Volume_create_body, ok))
            /\ IF ok
               THEN /\ remote' = RemoteAfterCreate(Volume_create_body)
                    /\ actions' = append_action("create")
                    /\ pc' = "managed"
                    /\ report' = report
               ELSE /\ pc' = "failed"
                    /\ report' = LxdFailure(diff)
                    /\ UNCHANGED <<remote, actions>>
    /\ UNCHANGED <<kind, params, check_mode, config, diff, old_json, old_state, invocation, history>>

Volume_delete_storage_volume ==
    /\ kind = "volume" /\ pc = "fetched"
    /\ params.state = "absent" /\ old_state = "present"
    /\ IF dry_run
       THEN /\ actions' = append_action("delete")
            /\ pc' = "managed"
            /\ UNCHANGED <<calls, remote, report>>
       ELSE \E ok \in BOOLEAN :
            /\ calls' = Append(calls, Request("DELETE", Volume_resource_url, ok))
            /\ IF ok
               THEN /\ remote' = Absent
                    /\ actions' = append_action("delete")
                    /\ pc' = "managed"
                    /\ report' = report
               ELSE /\ pc' = "failed"
                    /\ report' = LxdFailure(diff)
                    /\ UNCHANGED <<remote, actions>>
    /\ UNCHANGED <<kind, params, check_mode, config, diff, old_json, old_state, invocation, history>>

\* url_params = dict(target=self.target), then the project
Volume_migrate_url ==
    WithQuery(Volume_resource_path, << <<"target", params.target>> >> \o ProjectParam)

Volume_migrate_storage_volume ==
    /\ kind = "volume" /\ pc = "fetched"
    /\ params.state = "present" /\ old_state # "absent"
    /\ Volume_needs_to_migrate_volume
    /\ IF dry_run
       THEN /\ actions' = append_action("migrate")
            /\ pc' = "migrated"
            /\ UNCHANGED <<calls, remote, report>>
       ELSE \E ok \in BOOLEAN :
            /\ calls' = Append(calls,
                   RequestWithBody("POST", Volume_migrate_url, EmptyDict, ok))
            /\ IF ok
               THEN /\ remote' = RemoteAfterMigrate
                    /\ actions' = append_action("migrate")
                    /\ pc' = "migrated"
                    /\ report' = report
               ELSE /\ pc' = "failed"
                    /\ report' = LxdFailure(diff)
                    /\ UNCHANGED <<remote, actions>>
    /\ UNCHANGED <<kind, params, check_mode, config, diff, old_json, old_state, invocation, history>>

\* faulty variant: the configuration is applied to a resource that was not found, too
Volume_past_migration_AlsoWhenAbsent ==
    \/ pc = "migrated"
    \/ /\ pc = "fetched"
       /\ params.state = "present"
       /\ ~Volume_needs_to_migrate_volume

\* faulty variant: a failed migrate POST is swallowed and the run goes on
Volume_past_migration_FailureSwallowed ==
    \/ pc = "migrated"
    \/ /\ pc = "fetched"
       /\ params.state = "present" /\ old_state # "absent"
       /\ ~Volume_needs_to_migrate_volume
    \/ /\ pc = "failed"
       /\ params.state = "present" /\ old_state = "present"
       /\ IF calls # <<>> THEN calls[Len(calls)].method = "POST" ELSE FALSE

\* faulty variant: the configuration may be applied without migrating first
Volume_past_migration_Unchecked ==
    \/ pc = "migrated"
    \/ /\ pc = "fetched"
       /\ params.state = "present" /\ old_state # "absent"

\* the migration check of _manage_state is behind the run
Volume_past_migration ==
    \/ pc = "migrated"
    \/ /\ pc = "fetched"
       /\ params.state = "present" /\ old_state # "absent"
       /\ ~Volume_needs_to_migrate_volume

Volume_apply_storage_volume_configs ==
    /\ kind = "volume"
    /\ Volume_past_migration
    /\ Volume_needs_to_apply_configs
    /\ LET body_json == Volume_body_json
           changed   == Volume_needs_to_change_config("config")
       IN  /\ old_json' = AliasedOldJson(body_json, changed)
           /\ diff' = DiffAfterApply(body_json, changed)
           /\ IF dry_run
              THEN /\ actions' = append_action("apply_configs")
                   /\ pc' = "managed"
                   /\ UNCHANGED <<calls, remote, report>>
              ELSE \E ok \in BOOLEAN :
                   /\ calls' = Append(calls,
                          RequestWithBody("PUT", Volume_resource_url, body_json, ok))
                   /\ IF ok
                      THEN /\ remote' = RemoteAfterPut(body_json)
                           /\ actions' = append_action("apply_configs")
                           /\ pc' = "managed"
                           /\ report' = report
                      ELSE /\ pc' = "failed"
                           /\ report' = LxdFailure(DiffAfterApply(body_json, changed))
                           /\ UNCHANGED <<remote, actions>>
    /\ UNCHANGED <<kind, params, check_mode, config, old_state, invocation, history>>

\* _manage_state returns without calling anything more (or has returned)
Volume_manage_state_returns ==
    \/ pc = "managed"
    \/ Volume_past_migration /\ ~Volume_needs_to_apply_configs
    \/ pc = "fetched" /\ params.state = "absent" /\ old_state # "present"

(***************************************************************************)
(* run(): the success report.                                              *)
(***************************************************************************)
ExitJson ==
    /\ IF kind = "pool" THEN Pool_manage_state_returns ELSE Volume_manage_state_returns
    /\ report' = [via       |-> "exit_json",
                  changed   |-> Len(actions) > 0,
                  old_state |-> old_state,
                  actions   |-> actions,
                  diff      |-> diff]
    /\ pc' = "exited"
    /\ UNCHANGED <<kind, params, check_mode, remote, config, actions, diff,
                   old_json, old_state, calls, invocation, history>>

(***************************************************************************)
(* The next invocation of the module with the same options: a fresh object *)
(* (__init__) against the server as the previous invocation left it.  An   *)
(* invocation that ended before its first call left the server untouched:  *)
(* the invocation after it is a first invocation again, and is not         *)
(* explored a second time.                                                 *)
(***************************************************************************)
NextRun ==
    /\ Finished
    /\ calls # <<>>
    /\ invocation < MaxRuns
    /\ invocation' = invocation + 1
    /\ history' = <<[check_mode |-> check_mode, report |-> report,
                     calls |-> calls, old_state |-> old_state]>>
    /\ check_mode' \in BOOLEAN
    /\ pc' = "run"
    /\ config' = build_config(CONFIG_PARAMS, params)
    /\ actions' = <<>>
    /\ diff' = [before |-> EmptyDict, after |-> EmptyDict]
    /\ old_json' = EmptyDict
    /\ old_state' = "unset"
    /\ calls' = <<>>
    /\ report' = NoReport
    /\ UNCHANGED <<kind, params, remote>>

(***************************************************************************)
(* Inputs.                                                                 *)
(***************************************************************************)
ConfigKeys == {"size", "source"}

DesiredConfigs == Dicts(ConfigKeys, 1..NumValues)

ObservedConfigs == Dicts(ConfigKeys, {1})

DesiredDescriptions == {"d1", "d2"}

ObservedDescriptions == {"d1"}

Node1 == <<"n", "1">>

Node2 == <<"n", "2">>

Names == {<<"p", "1">>}

\* a name that holds a path delimiter and a query delimiter
DelimiterName == <<"a", "/", "b", "?", "c">>

\* an option that is unset, or set to one of vs
Option(k, vs) == {EmptyDict} \cup {[x \in {k} |-> v] : v \in vs}

\* the options that only reach the transport: unset in the first family of
\* inputs, varied in the second (where the configuration is kept small)
TransportOptions ==
    {Merge(tp, pj) : tp \in Option("trust_password", {"secret"}),
                     pj \in Option("project", {<<"p", "j">>})}

PoolParams ==
    {Merge(Merge(Merge([name |-> n, state |-> st], c), d), dr) :
        n \in Names, st \in STORAGE_STATES,
        c \in Option("config", DesiredConfigs),
        d \in Option("description", DesiredDescriptions),
        dr \in Option("driver", {"dir", "zfs"})}
    \cup
    {Merge(Merge(Merge(Merge([name |-> n, state |-> st], c), dr), t), tr) :
        n \in Names, st \in STORAGE_STATES,
        c \in Option("config", {[size |-> NumValues]}),
        dr \in Option("driver", {"dir"}),
        t \in Option("target", {<<>>, Node2}),
        tr \in TransportOptions}
    \cup
    {Merge(Merge(Merge([name |-> DelimiterName, state |-> st, driver |-> "dir"], c), t), pj) :
        st \in STORAGE_STATES,
        c \in Option("config", {[size |-> NumValues]}),
        t \in Option("target", {Node2}),
        pj \in Option("project", {<<"p", "j">>})}

VolumeParams ==
    {Merge(Merge(Merge([name |-> n, state |-> st, pool |-> <<"d">>,
                        type |-> "custom", content_type |-> "filesystem"], c), d), t) :
        n \in Names, st \in STORAGE_STATES,
        c \in Option("config", DesiredConfigs),
        d \in Option("description", DesiredDescriptions),
        t \in Option("target", {Node1, Node2})}
    \cup
    {Merge(Merge(Merge([name |-> n, state |-> st, pool |-> <<"d">>,
                        type |-> "custom", content_type |-> "filesystem"], c), t), tr) :
        n \in Names, st \in STORAGE_STATES,
        c \in Option("config", {[size |-> NumValues]}),
        t \in Option("target", {<<>>, Node2}),
        tr \in TransportOptions}
    \cup
    {Merge(Merge(Merge([name |-> DelimiterName, state |-> st, pool |-> <<"d">>,
                        type |-> "custom", content_type |-> "filesystem"], c), t), pj) :
        st \in STORAGE_STATES,
        c \in Option("config", {[size |-> NumValues]}),
        t \in Option("target", {Node2}),
        pj \in Option("project", {<<"p", "j">>})}
    \cup
    \* invocations that pass allow_migrate, as the unit tests of migration do
    {Merge(Merge([name |-> n, state |-> "present", pool |-> <<"d">>,
                  type |-> "custom", content_type |-> "filesystem",
                  target |-> Node2, allow_migrate |-> am], c), d) :
        n \in Names, am \in BOOLEAN,
        c \in Option("config", {[size |-> NumValues]}),
        d \in Option("description", {"d1"})}

PoolRemotes ==
    {Absent} \cup
    {[present |-> TRUE, metadata |-> Merge(Merge([driver |-> "dir"], c), d)] :
        c \in Option("config", ObservedConfigs),
        d \in Option("description", ObservedDescriptions)}
    \cup
    \* a pool whose metadata reports a location, as a cluster member's does
    {[present |-> TRUE, metadata |-> Merge([driver |-> "dir", location |-> Node1], c)] :
        c \in Option("config", {[size |-> 1]})}

VolumeRemotes ==
    {Absent} \cup
    {[present |-> TRUE, metadata |-> Merge(Merge(Merge([type |-> "custom"], c), d), l)] :
        c \in Option("config", ObservedConfigs),
        d \in Option("description", ObservedDescriptions),
        l \in Option("location", {<<>>, Node1})}

Init ==
    /\ kind \in {"pool", "volume"}
    /\ params \in IF kind = "pool" THEN PoolParams ELSE VolumeParams
    /\ remote \in IF kind = "pool" THEN PoolRemotes ELSE VolumeRemotes
    /\ check_mode \in BOOLEAN
    /\ pc = "run"
    /\ config = build_config(CONFIG_PARAMS, params)
    /\ actions = <<>>
    /\ diff = [before |-> EmptyDict, after |-> EmptyDict]
    /\ old_json = EmptyDict
    /\ old_state = "unset"
    /\ calls = <<>>
    /\ report = NoReport
    /\ invocation = 1
    /\ history = <<>>

Next ==
    \/ UnsupportedParameters
    \/ ClientConstructionFails
    \/ Authenticate
    \/ Fetch
    \/ Pool_create_storage_pool
    \/ Pool_delete_storage_pool
    \/ Pool_apply_storage_pool_configs
    \/ Volume_create_storage_volume
    \/ Volume_delete_storage_volume
    \/ Volume_migrate_storage_volume
    \/ Volume_apply_storage_volume_configs
    \/ ExitJson
    \/ NextRun

Spec == Init /\ [][Next]_vars

(***************************************************************************)
(* What the properties speak about.                                        *)
(***************************************************************************)
WriteMethods == {"POST", "PUT", "DELETE"}

\* the write requests among cs, in the order they were issued
Writes(cs) == SelectSeq(cs, LAMBDA c : c.method \in WriteMethods)

NoWrite(cs) == Writes(cs) = <<>>

\* the response the fetch of this invocation returned
Fetches == {i \in 1..Len(calls) : calls[i].method = "GET" /\ calls[i].ok}

HasFetched == Fetches # {}

Fetched == calls[CHOOSE i \in Fetches : TRUE].response

ObservedPresent == HasFetched /\ Fetched.type # "error"

ObservedAbsent == HasFetched /\ Fetched.type = "error"

ObservedMetadata == IF ObservedPresent THEN Fetched.metadata ELSE EmptyDict

ObservedConfig ==
    IF "config" \in DOMAIN ObservedMetadata THEN ObservedMetadata.config ELSE EmptyDict

\* some desired config key is missing from the observed config or differs
DesiredConfigDiffers ==
    /\ "config" \in DOMAIN params
    /\ \E k \in DOMAIN params.config :
          IF k \in DOMAIN ObservedConfig THEN ObservedConfig[k] # params.config[k] ELSE TRUE

DesiredDescriptionDiffers ==
    /\ "description" \in DOMAIN params
    /\ IF "description" \in DOMAIN ObservedMetadata
       THEN ObservedMetadata.description # params.description ELSE TRUE

SomeMutableKeyDiffers == DesiredConfigDiffers \/ DesiredDescriptionDiffers

\* a target is set and the observed location is non-empty and another node
MigrationRequired ==
    /\ kind = "volume"
    /\ "target" \in DOMAIN params /\ params.target # <<>>
    /\ "location" \in DOMAIN ObservedMetadata
    /\ ObservedMetadata.location # <<>>
    /\ ObservedMetadata.location # params.target

PreviousRun == history[Len(history)]

Reported == Finished /\ "actions" \in DOMAIN report

\* the action log the decision rules call for, from the options and the
\* fetched state alone
ExpectedLog ==
    IF params.state = "present"
    THEN IF ObservedAbsent THEN <<"create">>
         ELSE (IF MigrationRequired THEN <<"migrate">> ELSE <<>>)
              \o (IF SomeMutableKeyDiffers THEN <<"apply_configs">> ELSE <<>>)
    ELSE IF ObservedPresent THEN <<"delete">> ELSE <<>>

\* the pool cannot be created: no driver was supplied
MissingDriver ==
    /\ kind = "pool" /\ params.state = "present" /\ ObservedAbsent
    /\ "driver" \notin DOMAIN params

IsPrefix(s, t) == Len(s) <= Len(t) /\ SubSeq(t, 1, Len(s)) = s

(***************************************************************************)
(* C1: idempotence.  After a real run that completed without error, the    *)
(* next run with the same options (pool or volume, any intent and any      *)
(* supplied description, config, driver, target) has an empty action log,  *)
(* reports changed = false and issues no write call.                       *)
(***************************************************************************)
AfterSuccessfulRealRun ==
    /\ Len(history) >= 1
    /\ ~PreviousRun.check_mode
    /\ PreviousRun.report.via = "exit_json"

\* C1: the run after a successful real run logs nothing, writes nothing and
\* reports changed = false with an empty log; the only report without a log
\* is that of a second run whose client could not be built, after no call.
C1_Idempotence ==
    AfterSuccessfulRealRun =>
        /\ actions = <<>>
        /\ NoWrite(calls)
        /\ Finished => IF "actions" \in DOMAIN report
                       THEN report.actions = <<>> /\ report.changed = FALSE
                       ELSE report.msg = Construction_msg /\ calls = <<>>

\* a second run has exited after a first run that migrated and reconfigured
C1_Witness ==
    /\ AfterSuccessfulRealRun
    /\ PreviousRun.report.actions = <<"migrate", "apply_configs">>
    /\ pc = "exited"

(***************************************************************************)
(* C2: dry-run equivalence of the log.  As stated: the action log a        *)
(* dry-run reports is identical to the log a real run of the same scenario *)
(* (same options, same observed remote state) reports.                     *)
(***************************************************************************)
\* this real run follows a dry run of the same options; the dry run changed
\* nothing on the server, and both have fetched and reported a log
RealRunAfterDryRun ==
    /\ Len(history) >= 1
    /\ PreviousRun.check_mode /\ ~check_mode
    /\ PreviousRun.old_state # "unset" /\ "actions" \in DOMAIN PreviousRun.report
    /\ HasFetched /\ Reported

C2_Original == RealRunAfterDryRun => report.actions = PreviousRun.report.actions

\* C2 as amended: the logs are identical when no write call of the real run
\* fails; when one fails, the real log is the dry-run log cut before the
\* action whose request failed.
C2_DryRunLogEqualsRealLog ==
    RealRunAfterDryRun =>
        /\ report.via = "exit_json" => report.actions = PreviousRun.report.actions
        /\ report.via = "fail_json" =>
              /\ IsPrefix(report.actions, PreviousRun.report.actions)
              /\ report.actions # PreviousRun.report.actions

C2_Witness ==
    /\ RealRunAfterDryRun
    /\ report.via = "exit_json"
    /\ report.actions = <<"migrate", "apply_configs">>

AllCallsOk == \A i \in 1..Len(calls) : calls[i].ok

LastCallFailed == calls # <<>> /\ ~calls[Len(calls)].ok

(***************************************************************************)
(* C4: intent present, fetched state Absent.  As stated: the run's action  *)
(* log is always exactly <<"create">>, changed = true and old_state =      *)
(* "absent", whatever target, config or description were supplied.         *)
(***************************************************************************)
CreateCase == params.state = "present" /\ ObservedAbsent

C4_Original ==
    (CreateCase /\ Finished) =>
        /\ actions = <<"create">>
        /\ Reported /\ report.actions = <<"create">> /\ report.changed
        /\ old_state = "absent"

\* C4 as amended: the log is exactly <<"create">>, with changed = true and
\* old_state = "absent", when the run completes without error, which it does
\* unless a pool is given no driver or the create POST of a real run fails;
\* in those two cases the log is empty.  No migrate and no apply_configs is
\* ever logged.
C4_CreateWhenAbsent ==
    CreateCase =>
        /\ actions \in {<<>>, <<"create">>}
        /\ old_state = "absent"
        /\ Finished =>
              /\ report.via = "exit_json" <=> (~MissingDriver /\ AllCallsOk)
              /\ report.via = "exit_json" =>
                    /\ report.actions = <<"create">> /\ report.changed
                    /\ report.old_state = "absent"
              /\ report.via = "fail_json" =>
                    /\ actions = <<>>
                    /\ MissingDriver \/ LastCallFailed

C4_Witness ==
    /\ CreateCase /\ pc = "exited"
    /\ {"target", "config", "description"} \subseteq DOMAIN params
    /\ report.actions = <<"create">>

(***************************************************************************)
(* C5: intent absent, fetched state Present.  As stated: the run's action  *)
(* log is exactly <<"delete">>, changed = true and old_state = "present",  *)
(* even when target, config or description are supplied and differ.        *)
(***************************************************************************)
DeleteCase == params.state = "absent" /\ ObservedPresent

C5_Original ==
    (DeleteCase /\ Finished) =>
        /\ actions = <<"delete">>
        /\ Reported /\ report.actions = <<"delete">> /\ report.changed
        /\ old_state = "present"

\* C5 as amended: the log is exactly <<"delete">>, with changed = true and
\* old_state = "present", when the run completes without error, which it
\* does unless the DELETE of a real run fails; then the log is empty.  No
\* migrate and no apply_configs is ever logged.
C5_DeleteWhenPresent ==
    DeleteCase =>
        /\ actions \in {<<>>, <<"delete">>}
        /\ old_state = "present"
        /\ Finished =>
              /\ report.via = "exit_json" <=> AllCallsOk
              /\ report.via = "exit_json" =>
                    /\ report.actions = <<"delete">> /\ report.changed
                    /\ report.old_state = "present"
              /\ report.via = "fail_json" => actions = <<>> /\ LastCallFailed

C5_Witness ==
    /\ DeleteCase /\ pc = "exited"
    /\ MigrationRequired /\ SomeMutableKeyDiffers
    /\ report.actions = <<"delete">>

(***************************************************************************)
(* C6: the no-op cases.  Intent absent and the resource Absent, or intent  *)
(* present and the resource Present with every supplied mutable key equal  *)
(* to the observed value and no migration required: the log is empty,      *)
(* changed = false and no write request is issued.                         *)
(***************************************************************************)
NoOpCase ==
    \/ params.state = "absent" /\ ObservedAbsent
    \/ /\ params.state = "present" /\ ObservedPresent
       /\ ~SomeMutableKeyDiffers /\ ~MigrationRequired

\* C6: in a no-op case the log is empty, changed = false, and no POST, PUT or
\* DELETE is issued.
C6_NoOp ==
    NoOpCase =>
        /\ actions = <<>>
        /\ NoWrite(calls)
        /\ Finished => /\ report.via = "exit_json"
                       /\ report.actions = <<>>
                       /\ report.changed = FALSE

\* a configuration was supplied and the observed one has a key of its own
C6_Witness ==
    /\ NoOpCase /\ pc = "exited"
    /\ params.state = "present"
    /\ "config" \in DOMAIN params /\ params.config # EmptyDict
    /\ (DOMAIN ObservedConfig) \ (DOMAIN params.config) # {}

\* the PUT requests of this invocation
Puts == {i \in 1..Len(calls) : calls[i].method = "PUT"}

Logged(a) == \E i \in 1..Len(actions) : actions[i] = a

(***************************************************************************)
(* C7: config merge.  Whenever apply_configs is emitted because the        *)
(* desired config differs, the config of the PUT body is the observed      *)
(* config overridden key by key by the desired config: every desired key   *)
(* has the desired value, every key only the observed config has is kept   *)
(* with its observed value.  (In check mode the body is diff.after.)       *)
(***************************************************************************)
MergedConfig ==
    [k \in (DOMAIN ObservedConfig) \cup (DOMAIN params.config) |->
        IF k \in DOMAIN params.config THEN params.config[k] ELSE ObservedConfig[k]]

\* C7: the submitted config is the observed config overridden key by key by
\* the desired config.
C7_ConfigMerge ==
    DesiredConfigDiffers =>
        /\ \A i \in Puts : calls[i].body.config = MergedConfig
        /\ Logged("apply_configs") => diff.after.config = MergedConfig
        /\ (pc = "exited" /\ params.state = "present" /\ ObservedPresent)
              => /\ Logged("apply_configs")
                 /\ ~check_mode => Puts # {}

\* a PUT that overrides one observed key and keeps another
C7_Witness ==
    /\ DesiredConfigDiffers /\ pc = "exited"
    /\ \E i \in Puts : calls[i].ok
    /\ \E k \in DOMAIN params.config :
          k \in DOMAIN ObservedConfig /\ ObservedConfig[k] # params.config[k]
    /\ (DOMAIN ObservedConfig) \ (DOMAIN params.config) # {}

(***************************************************************************)
(* C8: omission means do-not-touch.  An attribute (description, config,    *)
(* driver) the caller did not supply is absent from the desired            *)
(* configuration, never triggers apply_configs whatever the observed value *)
(* is, and a PUT sent for another key carries the observed value of the    *)
(* omitted attribute unchanged (it is not sent empty, and it is not sent   *)
(* at all when the observed metadata has no such key).                     *)
(***************************************************************************)
Attributes == IF kind = "pool" THEN {"config", "description", "driver"}
              ELSE {"config", "description"}

Omitted == Attributes \ DOMAIN params

CarriesObserved(body, a) ==
    IF a \in DOMAIN ObservedMetadata
    THEN a \in DOMAIN body /\ body[a] = ObservedMetadata[a]
    ELSE a \notin DOMAIN body

\* C8: an omitted attribute is not in the desired configuration, triggers
\* nothing, and is carried in the PUT body with its observed value.
C8_OmittedUntouched ==
    /\ DOMAIN config = Attributes \cap DOMAIN params
    /\ \A a \in DOMAIN config : config[a] = params[a]
    /\ Logged("apply_configs") => SomeMutableKeyDiffers
    /\ \A i \in Puts : \A a \in Omitted : CarriesObserved(calls[i].body, a)
    /\ Logged("apply_configs") => \A a \in Omitted : CarriesObserved(diff.after, a)

\* a PUT for a changed config while the observed description was not supplied
C8_Witness ==
    /\ \E i \in Puts : calls[i].ok
    /\ "description" \in Omitted
    /\ "description" \in DOMAIN ObservedMetadata
    /\ DesiredConfigDiffers

(***************************************************************************)
(* C9: driver immutability (pools).  A desired driver that differs from    *)
(* the observed one never by itself causes apply_configs (with every other *)
(* supplied key equal the log stays empty), and every PUT body carries the *)
(* observed driver, never the desired one.                                 *)
(***************************************************************************)
DriverDiffers ==
    /\ kind = "pool" /\ params.state = "present" /\ ObservedPresent
    /\ "driver" \in DOMAIN params
    /\ "driver" \in DOMAIN ObservedMetadata
    /\ params.driver # ObservedMetadata.driver

\* C9: a differing desired driver alone changes nothing, and every PUT body
\* carries the observed driver.
C9_DriverImmutable ==
    /\ (DriverDiffers /\ ~SomeMutableKeyDiffers) =>
          /\ actions = <<>> /\ NoWrite(calls)
          /\ Finished => report.via = "exit_json" /\ report.actions = <<>>
    /\ (kind = "pool" /\ "driver" \in DOMAIN ObservedMetadata) =>
          /\ \A i \in Puts : /\ "driver" \in DOMAIN calls[i].body
                             /\ calls[i].body.driver = ObservedMetadata.driver
          /\ Logged("apply_configs") => diff.after.driver = ObservedMetadata.driver

C9_Witness ==
    /\ DriverDiffers /\ pc = "exited"
    /\ \E i \in Puts : calls[i].ok /\ calls[i].body.driver # params.driver

(***************************************************************************)
(* C10: migration ordering (volumes).  As stated: when the resource is     *)
(* Present, a location mismatch requires migration and a supplied mutable  *)
(* key differs, the log is exactly <<"migrate", "apply_configs">> and the  *)
(* migrate POST is issued before the apply_configs PUT.                    *)
(***************************************************************************)
MigrateAndApplyCase ==
    /\ params.state = "present" /\ ObservedPresent
    /\ MigrationRequired /\ SomeMutableKeyDiffers

WriteMethodsIssued == [i \in 1..Len(Writes(calls)) |-> Writes(calls)[i].method]

C10_Original ==
    (MigrateAndApplyCase /\ Finished) =>
        /\ actions = <<"migrate", "apply_configs">>
        /\ ~check_mode => WriteMethodsIssued = <<"POST", "PUT">>

\* C10 as amended: when no write call fails, the log is exactly
\* <<"migrate", "apply_configs">> and a real run issues the migrate POST and
\* then the apply_configs PUT; when the migrate POST fails the log is empty
\* and no PUT is sent, when the PUT fails the log is <<"migrate">>.  A PUT is
\* never issued before the POST.
C10_MigrateBeforeApply ==
    MigrateAndApplyCase =>
        /\ actions \in {<<>>, <<"migrate">>, <<"migrate", "apply_configs">>}
        /\ WriteMethodsIssued \in {<<>>, <<"POST">>, <<"POST", "PUT">>}
        /\ \A i \in 1..Len(calls) :
              calls[i].method = "POST" => calls[i].url = Volume_migrate_url
        /\ Finished =>
              /\ report.via = "exit_json" <=> AllCallsOk
              /\ report.via = "exit_json" =>
                    /\ report.actions = <<"migrate", "apply_configs">>
                    /\ ~check_mode => WriteMethodsIssued = <<"POST", "PUT">>
              /\ report.via = "fail_json" =>
                    /\ LastCallFailed
                    /\ \/ actions = <<>> /\ WriteMethodsIssued \in {<<>>, <<"POST">>}
                       \/ actions = <<"migrate">> /\ WriteMethodsIssued = <<"POST", "PUT">>

C10_Witness ==
    /\ MigrateAndApplyCase /\ pc = "exited" /\ ~check_mode
    /\ report.actions = <<"migrate", "apply_configs">>
    /\ WriteMethodsIssued = <<"POST", "PUT">>

(***************************************************************************)
(* C11, C12: the allow_migrate option.                                     *)
(***************************************************************************)
\* the invocation passes allow_migrate with the value b
AllowMigrate(b) ==
    IF "allow_migrate" \in DOMAIN params THEN params.allow_migrate = b ELSE FALSE

\* the volume is on the server at a non-empty location other than the target
ServerLocationDiffers ==
    /\ kind = "volume" /\ params.state = "present"
    /\ remote.present
    /\ Truthy(params, "target")
    /\ Truthy(remote.metadata, "location")
    /\ remote.metadata.location # params.target

\* no mutable option of the invocation differs from what the server holds
ServerMutableKeysAgree ==
    /\ \A a \in {"description"} \cap DOMAIN config :
          IF a \in DOMAIN remote.metadata THEN remote.metadata[a] = config[a] ELSE FALSE
    /\ IF "config" \in DOMAIN config
       THEN \A k \in DOMAIN config.config :
              IF "config" \in DOMAIN remote.metadata
              THEN IF k \in DOMAIN remote.metadata.config
                   THEN remote.metadata.config[k] = config.config[k] ELSE FALSE
              ELSE FALSE
       ELSE TRUE

\* the message names the value v
NamesValue(msg, v) == \E i \in 1..Len(msg.args) : msg.args[i] = v

\* C11: a volume that is at another location than the target, with
\* allow_migrate false, ends in a failure whose message names the current and
\* the requested location, with an empty action log and no write call.
C11_MigrationGuard ==
    (ServerLocationDiffers /\ AllowMigrate(FALSE) /\ invocation = 1 /\ Finished) =>
        /\ report.via = "fail_json"
        /\ NamesValue(report.msg, remote.metadata.location)
        /\ NamesValue(report.msg, params.target)
        /\ actions = <<>>
        /\ NoWrite(calls)

\* C12: a volume that is at another location than the target, with
\* allow_migrate true and no mutable key differing, succeeds with the action
\* log <<"migrate">> and changed = TRUE (when no call fails).
C12_AllowedMigration ==
    (/\ kind = "volume" /\ params.state = "present"
     /\ AllowMigrate(TRUE)
     /\ invocation = 1 /\ Finished /\ AllCallsOk
     /\ ServerLocationDiffers /\ ServerMutableKeysAgree) =>
        /\ report.via = "exit_json"
        /\ report.actions = <<"migrate">>
        /\ report.changed

(***************************************************************************)
(* C13: no spurious migration.                                             *)
(***************************************************************************)
\* the request is the migrate POST: a POST with the empty body
IsMigrateCall(c) == IF c.method = "POST" THEN c.body = EmptyDict ELSE FALSE

MigrateIssued == \E i \in 1..Len(calls) : IsMigrateCall(calls[i])

\* C13: migrate is logged, and the migrate POST issued, only for a volume with
\* intent present that was found, with a target set and a non-empty observed
\* location other than the target; in every other case of a found volume with
\* intent present and no differing mutable key the run reports changed = FALSE.
C13_NoSpuriousMigration ==
    /\ (Logged("migrate") \/ MigrateIssued) =>
          /\ kind = "volume" /\ params.state = "present"
          /\ ObservedPresent /\ MigrationRequired
    /\ (/\ kind = "volume" /\ params.state = "present" /\ ObservedPresent
        /\ ~MigrationRequired /\ ~SomeMutableKeyDiffers /\ Finished) =>
          /\ report.via = "exit_json"
          /\ report.actions = <<>>
          /\ ~report.changed

\* a found volume whose location is the target: the run ends unchanged
C13_Witness ==
    /\ kind = "volume" /\ params.state = "present" /\ pc = "exited"
    /\ ObservedPresent
    /\ Truthy(params, "target") /\ Truthy(ObservedMetadata, "location")
    /\ ObservedMetadata.location = params.target
    /\ ~SomeMutableKeyDiffers
    /\ ~report.changed /\ ~MigrateIssued

(***************************************************************************)
(* C14: a pool cannot be created without a driver.                         *)
(***************************************************************************)
PostIssued == \E i \in 1..Len(calls) : calls[i].method = "POST"

DriverRequiredFailure == report = [via |-> "fail_json", msg |-> DriverRequired_msg]

\* C14: with intent present, the pool not found and no driver supplied, the
\* run ends in the failure "driver is required", create is never logged and
\* no POST is sent, in a real run and in a dry run alike.
C14_MissingDriver ==
    MissingDriver =>
        /\ ~Logged("create")
        /\ ~PostIssued
        /\ pc \in {"fetched", "failed"}
        /\ Finished => DriverRequiredFailure

\* the failure is reported in a dry run
C14_Witness ==
    /\ MissingDriver /\ check_mode /\ pc = "failed"
    /\ DriverRequiredFailure
    /\ actions = <<>>

(***************************************************************************)
(* C15: what precedes the missing-driver failure.                          *)
(***************************************************************************)
\* the methods of the requests issued so far, in order
MethodsIssued == [i \in 1..Len(calls) |-> calls[i].method]

\* as the specification words it: the failure is reported with no call
\* issued at all
C15_Original ==
    (/\ kind = "pool" /\ params.state = "present"
     /\ "driver" \notin DOMAIN params
     /\ ~remote.present
     /\ DriverRequiredFailure) => calls = <<>>

\* C15: the missing-driver failure is reported before any write call, and
\* after the calls that precede the decision: the authenticate call when a
\* trust password is configured, then the GET that found the pool absent.
C15_DriverCheckedAfterFetch ==
    DriverRequiredFailure =>
        /\ MissingDriver
        /\ AllCallsOk
        /\ NoWrite(calls)
        /\ MethodsIssued = IF "trust_password" \in DOMAIN params
                           THEN <<"authenticate", "GET">> ELSE <<"GET">>

\* the failure of an invocation that authenticated and fetched first
C15_Witness ==
    /\ DriverRequiredFailure /\ pc = "failed"
    /\ "trust_password" \in DOMAIN params
    /\ Len(calls) = 2 /\ calls[2].method = "GET" /\ calls[2].response.type = "error"

(***************************************************************************)
(* C16: changed and the action log of a report.                            *)
(***************************************************************************)
\* changed as the report gives it; a report without the key does not say
\* that anything changed
ReportChanged == IF "changed" \in DOMAIN report THEN report.changed ELSE FALSE

\* the action log as the report gives it; a report without the key lists
\* no action
ReportLog == IF "actions" \in DOMAIN report THEN report.actions ELSE <<>>

\* C16: in every report, of a success and of a failure, changed is TRUE
\* exactly when the action log of that report is non-empty.
C16_ChangedIffLogNonEmpty ==
    Finished =>
        /\ ReportChanged <=> ReportLog # <<>>
        /\ "changed" \in DOMAIN report <=> "actions" \in DOMAIN report

\* a failure report that says changed, of a run whose first write succeeded
C16_Witness ==
    /\ pc = "failed"
    /\ ReportChanged
    /\ ReportLog # <<>>

(***************************************************************************)
(* C17: the reported old_state.                                            *)
(***************************************************************************)
\* the label of the response the fetch returned
FetchLabel == IF Fetched.type = "error" THEN "absent" ELSE "present"

\* C17: old_state is the label of the fetch response, "absent" exactly when
\* the response is tagged error; it is set by the fetch, it is the value
\* reported, and no create, migrate, apply_configs or delete of the run
\* changes it.
C17_OldStateIsFetchLabel ==
    /\ old_state = (IF HasFetched THEN FetchLabel ELSE "unset")
    /\ "old_state" \in DOMAIN report => HasFetched /\ report.old_state = FetchLabel

\* a run that created the resource still reports it as absent
C17_Witness ==
    /\ pc = "exited" /\ ~check_mode
    /\ Logged("create")
    /\ remote.present
    /\ report.old_state = "absent"

(***************************************************************************)
(* C18: the shape of a failure report.                                     *)
(***************************************************************************)
\* the keys of the report (via tells exit_json from fail_json)
ReportKeys == DOMAIN report \ {"via"}

\* as the specification words it: every failure report has the keys of a
\* success report, and the message
C18_Original ==
    pc = "failed" =>
        {"changed", "old_state", "actions", "diff", "msg"} \subseteq ReportKeys

\* C18: the report of a failed authenticate, fetch or write call has msg,
\* changed, actions and diff, with the log and the diff of the run so far,
\* and no old_state; the report of a validation failure, and the volume's
\* report of a failed client construction, have msg alone.
C18_FailureShape ==
    pc = "failed" =>
        /\ report.via = "fail_json"
        /\ IF report.msg = Exception_msg
           THEN /\ ReportKeys = {"msg", "changed", "actions", "diff"}
                /\ LastCallFailed
                /\ report.actions = actions
                /\ report.diff = diff
           ELSE /\ ReportKeys = {"msg"}
                /\ report.msg \in {DriverRequired_msg, Unsupported_msg, Construction_msg}
                /\ report.msg = Construction_msg => kind = "volume" /\ calls = <<>>
                /\ AllCallsOk

\* a write call failed after the fetch: old_state is known and not reported
C18_Witness ==
    /\ pc = "failed" /\ HasFetched
    /\ old_state = "present"
    /\ report.msg = Exception_msg
    /\ "old_state" \notin DOMAIN report
    /\ "diff" \in DOMAIN report

(***************************************************************************)
(* C19: the action log of a real run.                                      *)
(***************************************************************************)
\* the action a write request carries out
ActionOf(c) ==
    IF c.method = "PUT" THEN "apply_configs"
    ELSE IF c.method = "DELETE" THEN "delete"
    ELSE IF IsMigrateCall(c) THEN "migrate"
    ELSE "create"

\* the write requests that returned without error, in the order issued
SuccessfulWrites == SelectSeq(Writes(calls), LAMBDA c : c.ok)

ActionsCarriedOut == [i \in 1..Len(SuccessfulWrites) |-> ActionOf(SuccessfulWrites[i])]

\* C19: in a real run the action log is, at every point and in the report,
\* the sequence of the write calls that returned successfully, in order: a
\* failed call is not logged and a successful call is not missing.
C19_LogIsSuccessfulWrites ==
    ~check_mode =>
        /\ actions = ActionsCarriedOut
        /\ "actions" \in DOMAIN report => report.actions = ActionsCarriedOut

\* the migrate POST succeeded and the PUT failed
C19_Witness ==
    /\ ~check_mode /\ pc = "failed"
    /\ Len(calls) >= 2
    /\ calls[Len(calls)].method = "PUT" /\ ~calls[Len(calls)].ok
    /\ IsMigrateCall(calls[Len(calls) - 1]) /\ calls[Len(calls) - 1].ok
    /\ report.actions = <<"migrate">>
    /\ report.changed

(***************************************************************************)
(* C20: diff.before.                                                       *)
(***************************************************************************)
\* C20: once the fetch has returned, diff.before is the metadata as fetched
\* when the resource was found and empty when it was not, in the object and
\* in every report that carries the diff; no action of the run alters it.
C20_DiffBeforeIsObserved ==
    HasFetched =>
        /\ diff.before = ObservedMetadata
        /\ "diff" \in DOMAIN report => report.diff.before = ObservedMetadata

(***************************************************************************)
(* C21: authentication ordering.                                           *)
(***************************************************************************)
\* the positions of the authenticate calls among the calls of the run
AuthCalls == {i \in 1..Len(calls) : calls[i].method = "authenticate"}

\* C21: authenticate is called at most once in a run, only when a trust
\* password is configured, and then as the first call, before the fetch GET
\* and before every write call; without a trust password it is never called.
C21_AuthenticateFirst ==
    /\ AuthCalls \subseteq {1}
    /\ AuthCalls # {} => "trust_password" \in DOMAIN params
    /\ ("trust_password" \in DOMAIN params /\ calls # <<>>) => AuthCalls = {1}
    /\ "trust_password" \notin DOMAIN params => AuthCalls = {}

\* a run that authenticated, fetched and wrote, in that order
C21_Witness ==
    /\ Len(calls) = 3
    /\ calls[1].method = "authenticate"
    /\ calls[2].method = "GET"
    /\ calls[3].method \in WriteMethods
    /\ pc = "exited"

(***************************************************************************)
(* C22: the number of fetches and of write calls in a run.                 *)
(***************************************************************************)
\* the positions of the GET requests, failed ones included
GetCalls == {i \in 1..Len(calls) : calls[i].method = "GET"}

\* as the specification words it: a run that completes has issued one fetch
\* and at most one write call
C22_Original ==
    pc = "exited" => Cardinality(GetCalls) = 1 /\ Len(Writes(calls)) <= 1

\* C22: a run issues at most one fetch, and exactly one when it completes;
\* it issues at most one write call, except a volume run that migrates and
\* then applies a differing configuration, which issues the migrate POST and
\* then the PUT; a pool run never issues two.
C22_OneFetchFewWrites ==
    /\ Cardinality(GetCalls) <= 1
    /\ pc \in {"fetched", "migrated", "managed", "exited"} => Cardinality(GetCalls) = 1
    /\ Writes(calls) # <<>> => HasFetched
    /\ Len(Writes(calls)) <= 2
    /\ Len(Writes(calls)) = 2 =>
          /\ kind = "volume" /\ params.state = "present"
          /\ MigrationRequired /\ SomeMutableKeyDiffers
          /\ IsMigrateCall(Writes(calls)[1]) /\ Writes(calls)[1].ok
          /\ Writes(calls)[2].method = "PUT"

\* a completed volume run with two write calls
C22_Witness ==
    /\ pc = "exited" /\ kind = "volume"
    /\ Cardinality(GetCalls) = 1
    /\ Len(Writes(calls)) = 2

(***************************************************************************)
(* C23: one network call of the fixed method per logged action.            *)
(***************************************************************************)
\* the method of the request that carries out an action
MethodOf(action) ==
    CASE action = "create"        -> "POST"
      [] action = "migrate"       -> "POST"
      [] action = "apply_configs" -> "PUT"
      [] action = "delete"        -> "DELETE"

\* C23: in a real run the write calls that succeeded are as many as the
\* logged actions, and the method of the i-th is the method of the i-th
\* logged action: POST for create and for migrate, PUT for apply_configs,
\* DELETE for delete.
C23_OneCallPerAction ==
    ~check_mode =>
        /\ Len(SuccessfulWrites) = Len(actions)
        /\ \A i \in 1..Len(actions) :
              /\ actions[i] \in {"create", "migrate", "apply_configs", "delete"}
              /\ SuccessfulWrites[i].method = MethodOf(actions[i])

\* a real run that logged migrate and apply_configs after a POST and a PUT
C23_Witness ==
    /\ ~check_mode /\ pc = "exited"
    /\ actions = <<"migrate", "apply_configs">>
    /\ Len(Writes(calls)) = 2
    /\ Writes(calls)[1].method = "POST" /\ Writes(calls)[2].method = "PUT"

(***************************************************************************)
(* C24: the outcomes of the fetch.                                         *)
(***************************************************************************)
\* the fetch of this run raised: its GET did not return
FetchFailed == \E i \in GetCalls : ~calls[i].ok

\* C24: a fetch answered with not-found (404) is no failure: the resource is
\* absent and the run goes on to its decision, ending in a failure only if a
\* later call fails or the driver is missing; a fetch that fails otherwise
\* ends the run at once with a failure report whose log is empty and whose
\* changed is FALSE, and with no write call.
C24_FetchOutcomes ==
    /\ HasFetched =>
          /\ (Fetched.type = "error") <=> (old_state = "absent")
          /\ Fetched.type = "error" => Fetched.error_code = 404
    /\ (ObservedAbsent /\ Finished /\ AllCallsOk /\ ~MissingDriver) =>
          /\ pc = "exited"
          /\ report.old_state = "absent"
          /\ report.actions = IF params.state = "present" THEN <<"create">> ELSE <<>>
    /\ FetchFailed =>
          /\ pc = "failed"
          /\ ~calls[Len(calls)].ok /\ calls[Len(calls)].method = "GET"
          /\ report.via = "fail_json"
          /\ report.actions = <<>>
          /\ ~report.changed
          /\ NoWrite(calls)

\* a run whose fetch failed, followed by a run that found the resource
\* absent and went on to create it
C24_Witness ==
    /\ invocation = 2
    /\ PreviousRun.calls # <<>>
    /\ PreviousRun.calls[Len(PreviousRun.calls)].method = "GET"
    /\ ~PreviousRun.calls[Len(PreviousRun.calls)].ok
    /\ PreviousRun.report.actions = <<>>
    /\ ObservedAbsent /\ pc = "exited" /\ Logged("create")

(***************************************************************************)
(* C25: no retry, and nothing after a failure.                             *)
(***************************************************************************)
\* the positions of the calls that failed
FailedCalls == {i \in 1..Len(calls) : ~calls[i].ok}

\* the request without its outcome: what a second attempt would repeat
Attempt(c) == [f \in DOMAIN c \ {"ok", "response"} |-> c[f]]

\* C25: no call of a run is attempted twice, and the first failing call is
\* the last call of the run: the run is then over, with a failure report.
C25_NoRetryAbortAtOnce ==
    /\ \A i, j \in 1..Len(calls) : Attempt(calls[i]) = Attempt(calls[j]) => i = j
    /\ FailedCalls \subseteq {Len(calls)}
    /\ FailedCalls # {} => pc = "failed" /\ report.via = "fail_json"

\* the migrate POST failed: the differing configuration is never sent
C25_Witness ==
    /\ pc = "failed" /\ ~check_mode
    /\ MigrationRequired /\ SomeMutableKeyDiffers
    /\ IsMigrateCall(calls[Len(calls)]) /\ ~calls[Len(calls)].ok
    /\ Puts = {}

(***************************************************************************)
(* C26: the name component of the resource path.                           *)
(***************************************************************************)
\* the path of a URL: what precedes its first "?"
RECURSIVE PathOf(_)
PathOf(url) ==
    IF url = <<>> \/ Head(url) = "?" THEN <<>>
    ELSE <<Head(url)>> \o PathOf(Tail(url))

\* the path of the collection the resource belongs to
CollectionPath ==
    IF kind = "pool" THEN LXD_API_STORAGE_POOLS_ENDPOINT ELSE Volume_collection_path

\* the request addresses the resource itself: the GET, the PUT, the DELETE
\* and the migrate POST
AddressesResource(c) ==
    IF c.method \in {"GET", "PUT", "DELETE"} THEN TRUE ELSE IsMigrateCall(c)

\* C26: every request that addresses the resource has the path of the
\* collection, "/", and the escaped name, for a pool and for a volume alike,
\* whatever delimiters the name holds.
C26_NameEscaped ==
    \A i \in 1..Len(calls) :
        AddressesResource(calls[i]) =>
            PathOf(calls[i].url) = CollectionPath \o <<"/">> \o quote(params.name)

(***************************************************************************)
(* C27: the project query parameter.                                       *)
(***************************************************************************)
\* the query of a URL: what follows its first "?"
RECURSIVE QueryOf(_)
QueryOf(url) ==
    IF url = <<>> THEN <<>>
    ELSE IF Head(url) = "?" THEN Tail(url)
    ELSE QueryOf(Tail(url))

\* the parameters of a query: its parts between the "&"
RECURSIVE QueryParams(_, _)
QueryParams(q, cur) ==
    IF q = <<>> THEN (IF cur = <<>> THEN {} ELSE {cur})
    ELSE IF Head(q) = "&" THEN {cur} \cup QueryParams(Tail(q), <<>>)
    ELSE QueryParams(Tail(q), Append(cur, Head(q)))

\* the values the URL gives for the query parameter key
ParamValues(url, key) ==
    {SubSeq(p, 3, Len(p)) : p \in {p \in QueryParams(QueryOf(url), <<>>) :
                                      Len(p) >= 2 /\ p[1] = key /\ p[2] = "="}}

\* the requests of the run that have a URL: all but authenticate
UrlCalls == {i \in 1..Len(calls) : calls[i].method # "authenticate"}

\* C27: with a project set every request of the run carries the query
\* parameter project=<project>, and with no project set none carries a
\* project parameter.
C27_ProjectOnEveryRequest ==
    \A i \in UrlCalls :
        ParamValues(calls[i].url, "project") =
            IF Truthy(params, "project") THEN {quote_plus(params.project)} ELSE {}

(***************************************************************************)
(* C28: the target parameter on create.                                    *)
(***************************************************************************)
\* intent present with a target, and the fetch found nothing
CreateWithTargetCase ==
    params.state = "present" /\ Truthy(params, "target") /\ ObservedAbsent

\* the request is the create POST with the target: to the collection path,
\* with target=<target>, and not the migrate POST
IsCreateWithTarget(c) ==
    /\ c.method = "POST" /\ ~IsMigrateCall(c)
    /\ PathOf(c.url) = CollectionPath
    /\ ParamValues(c.url, "target") = {quote_plus(params.target)}

\* as the specification words it: whenever a target is set and the resource
\* is absent, the run sends the one create POST with the target and reports
\* the log <<"create">>
C28_Original ==
    (CreateWithTargetCase /\ Finished) =>
        /\ \A i \in GetCalls : ParamValues(calls[i].url, "target") = {}
        /\ Len(Writes(calls)) = 1 /\ IsCreateWithTarget(Writes(calls)[1])
        /\ ReportLog = <<"create">>
        /\ ~MigrateIssued

\* C28: with a target set and the resource absent, the GET carries no target
\* parameter, nothing but the create POST to the collection path with
\* target=<target> is ever sent, at most once, and migrate is neither logged
\* nor sent; a run that completes reports the log <<"create">>, having sent
\* that POST in a real run and nothing in a dry run; and the run completes
\* when no call fails and, for a pool, a driver was supplied.
C28_TargetOnCreate ==
    CreateWithTargetCase =>
        /\ \A i \in GetCalls : ParamValues(calls[i].url, "target") = {}
        /\ Len(Writes(calls)) <= 1
        /\ \A i \in 1..Len(Writes(calls)) : IsCreateWithTarget(Writes(calls)[i])
        /\ ~Logged("migrate") /\ ~MigrateIssued
        /\ pc = "exited" =>
              /\ report.actions = <<"create">>
              /\ Len(Writes(calls)) = IF check_mode THEN 0 ELSE 1
        /\ (Finished /\ AllCallsOk /\ ~MissingDriver) => pc = "exited"

\* a real run that created the resource on the target
C28_Witness ==
    /\ CreateWithTargetCase /\ ~check_mode /\ pc = "exited"
    /\ Len(Writes(calls)) = 1 /\ IsCreateWithTarget(Writes(calls)[1])
    /\ report.actions = <<"create">>

(***************************************************************************)
(* C29: the config-change decision.                                        *)
(***************************************************************************)
\* intent present and the resource found
ReconcileCase == params.state = "present" /\ ObservedPresent

\* the run applied the configuration, or tried to
ApplyAttempted == Logged("apply_configs") \/ Puts # {}

\* as the specification words it: with intent present and the resource
\* found, the run logs apply_configs exactly when a supplied mutable key
\* differs
C29_Original ==
    (ReconcileCase /\ Finished) => (Logged("apply_configs") <=> SomeMutableKeyDiffers)

\* C29: with intent present and the resource found, apply_configs is logged
\* or its PUT sent only if a supplied mutable key differs, and a run in which
\* no call fails logs it exactly when one does.  config differs when a
\* supplied config key is missing from the observed config or has another
\* value there (keys of the observed config alone never count, a supplied
\* empty config never differs); description differs when the observed
\* metadata lacks it or holds another value.
C29_ConfigChangeDecision ==
    ReconcileCase =>
        /\ ApplyAttempted => SomeMutableKeyDiffers
        /\ (Finished /\ AllCallsOk) => (Logged("apply_configs") <=> SomeMutableKeyDiffers)
        /\ (Logged("apply_configs") /\ ~check_mode) => Puts # {}

\* apply_configs for a supplied config key the observed config lacks, while
\* the observed config holds a key that was not supplied
C29_Witness ==
    /\ ReconcileCase /\ pc = "exited"
    /\ "config" \in DOMAIN params
    /\ DOMAIN params.config \ DOMAIN ObservedConfig # {}
    /\ DOMAIN ObservedConfig \ DOMAIN params.config # {}
    /\ \A k \in DOMAIN params.config \cap DOMAIN ObservedConfig :
          ObservedConfig[k] = params.config[k]
    /\ ~DesiredDescriptionDiffers
    /\ report.actions = <<"apply_configs">>

(***************************************************************************)
(* C30: the two shapes of a POST.                                          *)
(***************************************************************************)
\* the path of the resource: the collection, "/", and the name, escaped or
\* as given
ResourcePaths ==
    {CollectionPath \o <<"/">> \o params.name,
     CollectionPath \o <<"/">> \o quote(params.name)}

\* a POST to the resource path with the target parameter and the empty body
MigrateShape(c) ==
    /\ PathOf(c.url) \in ResourcePaths
    /\ Truthy(params, "target")
    /\ ParamValues(c.url, "target") = {quote_plus(params.target)}
    /\ c.body = EmptyDict

\* a POST to the collection path with a body that holds the name and the
\* supplied configuration
CreateShape(c) ==
    /\ PathOf(c.url) = CollectionPath
    /\ "name" \in DOMAIN c.body
    /\ c.body.name = params.name
    /\ \A a \in DOMAIN config : a \in DOMAIN c.body /\ c.body[a] = config[a]

PostCalls == {i \in 1..Len(calls) : calls[i].method = "POST"}

\* C30: every POST of a run has one of two shapes, and never both: the
\* migrate POST goes to the resource path with a target parameter and the
\* empty body, the create POST to the collection path with a body holding
\* the name and the supplied configuration; in a real run the POST behind a
\* logged migrate has the first shape and the one behind a logged create the
\* second.
C30_PostShapes ==
    /\ \A i \in PostCalls :
          /\ MigrateShape(calls[i]) \/ CreateShape(calls[i])
          /\ ~(MigrateShape(calls[i]) /\ CreateShape(calls[i]))
    /\ ~check_mode =>
          \A i \in 1..Len(actions) :
              /\ actions[i] = "migrate" => MigrateShape(SuccessfulWrites[i])
              /\ actions[i] = "create" => CreateShape(SuccessfulWrites[i])

(***************************************************************************)
(* C31: diff.after.                                                        *)
(***************************************************************************)
\* the desired configuration, from the supplied attributes
DesiredConfiguration == [a \in Attributes \cap DOMAIN params |-> params[a]]

\* a dict with the key k when the condition holds, empty otherwise
Entry(cond, k, v) == IF cond THEN [x \in {k} |-> v] ELSE EmptyDict

\* the body of the PUT, from the options and the fetched metadata: every
\* recognized key the observed metadata has, the differing supplied config
\* merged into the observed one, a differing supplied description in place
\* of the observed one
ExpectedBody ==
    Merge(Merge(
        Entry(kind = "pool" /\ "driver" \in DOMAIN ObservedMetadata,
              "driver", ObservedMetadata["driver"]),
        Entry(DesiredConfigDiffers \/ "config" \in DOMAIN ObservedMetadata,
              "config", IF DesiredConfigDiffers THEN MergedConfig
                        ELSE ObservedMetadata["config"])),
        Entry(DesiredDescriptionDiffers \/ "description" \in DOMAIN ObservedMetadata,
              "description", IF DesiredDescriptionDiffers THEN params["description"]
                             ELSE ObservedMetadata["description"]))

\* as the specification words it: the reported diff.after is the body of the
\* PUT when apply_configs is in the reported log, and the desired
\* configuration in every other report
C31_Original ==
    "diff" \in DOMAIN report =>
        report.diff.after = IF Logged("apply_configs") THEN ExpectedBody
                            ELSE DesiredConfiguration

\* C31: diff.after is empty until the fetch has returned, then the desired
\* configuration, and from the moment apply_configs is carried out (its PUT
\* sent, successfully or not, or skipped in a dry run) the body of that PUT;
\* every report that carries a diff reports that value.
C31_DiffAfter ==
    /\ config = DesiredConfiguration
    /\ diff.after = IF ~HasFetched THEN EmptyDict
                    ELSE IF ApplyAttempted THEN ExpectedBody
                    ELSE DesiredConfiguration
    /\ \A i \in Puts : calls[i].body = diff.after
    /\ "diff" \in DOMAIN report => report.diff.after = diff.after

\* a dry run that reports the body it would have sent
C31_Witness ==
    /\ pc = "exited" /\ check_mode
    /\ Logged("apply_configs")
    /\ report.diff.after = ExpectedBody
    /\ report.diff.after # DesiredConfiguration

(***************************************************************************)
(* C32: the order of the pipeline.                                         *)
(***************************************************************************)
\* as the specification words it: every run issues the fetch exactly once
\* and no write before it
C32_Original ==
    Finished =>
        /\ Cardinality(GetCalls) = 1
        /\ \A i \in 1..Len(calls) :
              calls[i].method \in WriteMethods => \E j \in Fetches : j < i

\* C32: a run issues the fetch at most once, and exactly once unless it ends
\* before it, in a failed authenticate, in a failed construction of the
\* client or in the rejection of its options;
\* every write call follows the return of the fetch; and the log is at every
\* point a prefix of the log the options and the fetched state call for,
\* with old_state the label of that fetch, whatever the writes of the run
\* have made of the server since.
C32_PipelineOrder ==
    /\ Cardinality(GetCalls) <= 1
    /\ (Finished /\ GetCalls = {}) =>
          /\ pc = "failed"
          /\ \/ calls = <<>> /\ report.msg \in {Unsupported_msg, Construction_msg}
             \/ /\ Len(calls) = 1
                /\ calls[1].method = "authenticate" /\ ~calls[1].ok
    /\ pc \in {"fetched", "migrated", "managed", "exited"} => Cardinality(Fetches) = 1
    /\ \A i \in 1..Len(calls) :
          calls[i].method \in WriteMethods => \E j \in Fetches : j < i
    /\ actions # <<>> => HasFetched
    /\ HasFetched => IsPrefix(actions, ExpectedLog) /\ old_state = FetchLabel

\* a volume run that migrated and then applied the configuration, the server
\* no longer being as the one fetch of the run found it
C32_Witness ==
    /\ pc = "exited" /\ ~check_mode
    /\ Cardinality(GetCalls) = 1
    /\ actions = <<"migrate", "apply_configs">>
    /\ remote.metadata # Fetched.metadata

(***************************************************************************)
(* C33: the shapes of the action log.                                      *)
(***************************************************************************)
\* the complete logs a volume run can end with; a pool run never migrates
CompleteLogs ==
    IF kind = "volume"
    THEN {<<>>, <<"create">>, <<"delete">>, <<"migrate">>, <<"apply_configs">>,
          <<"migrate", "apply_configs">>}
    ELSE {<<>>, <<"create">>, <<"delete">>, <<"apply_configs">>}

\* the log has the shape of a complete log or of a prefix of one
LogShape ==
    /\ \E l \in CompleteLogs : IsPrefix(actions, l)
    /\ (Logged("create") \/ Logged("delete")) => Len(actions) = 1
    /\ \A i, j \in 1..Len(actions) : actions[i] = actions[j] => i = j

\* the log is left alone or grows by one action at its end; the next run
\* starts with an empty log of its own
LogStep ==
    \/ actions' = actions
    \/ \E a \in {"create", "delete", "migrate", "apply_configs"} :
          actions' = Append(actions, a)
    \/ invocation' = invocation + 1 /\ actions' = <<>>

\* C33: in every state of every run the action log is <<>>, <<"create">>,
\* <<"delete">>, <<"migrate">>, <<"apply_configs">> or <<"migrate",
\* "apply_configs">>: create and delete stand alone, no action occurs twice,
\* and the log only grows by appending.
C33_LogShapes == [](LogShape) /\ [][LogStep]_vars

\* the longest log: a migration followed by apply_configs
C33_Witness ==
    /\ actions = <<"migrate", "apply_configs">>
    /\ pc = "managed"

(***************************************************************************)
(* C34: the pool module never migrates.                                    *)
(***************************************************************************)
\* C34: in a pool run migrate is never logged and no migrate POST is sent,
\* whatever the target and whatever location the fetched metadata reports,
\* and a request carries a target parameter only if it is the create POST:
\* the GET, the PUT and the DELETE never do.
C34_PoolNeverMigrates ==
    kind = "pool" =>
        /\ ~Logged("migrate")
        /\ ~MigrateIssued
        /\ \A i \in UrlCalls :
              IF calls[i].method = "POST"
              THEN /\ CreateShape(calls[i])
                   /\ ParamValues(calls[i].url, "target") =
                         IF Truthy(params, "target")
                         THEN {quote_plus(params.target)} ELSE {}
              ELSE ParamValues(calls[i].url, "target") = {}

\* a pool found at another location than the target: its configuration is
\* applied where it is
C34_Witness ==
    /\ kind = "pool" /\ pc = "exited" /\ ~check_mode
    /\ Truthy(params, "target")
    /\ Truthy(ObservedMetadata, "location")
    /\ ObservedMetadata.location # params.target
    /\ actions = <<"apply_configs">>
    /\ \E i \in Puts : ParamValues(calls[i].url, "target") = {}

(***************************************************************************)
(* C35: the PUT is never a no-op and touches mutable keys only.            *)
(***************************************************************************)
\* the body gives the key another value than the fetched metadata has, or a
\* value where the fetched metadata has none
Overrides(body, a) ==
    IF a \in DOMAIN body
    THEN (IF a \in DOMAIN ObservedMetadata THEN body[a] # ObservedMetadata[a] ELSE TRUE)
    ELSE FALSE

\* the comparison of the decision, for one mutable key
DetectedAsChanged(a) ==
    IF a = "config" THEN DesiredConfigDiffers ELSE DesiredDescriptionDiffers

\* C35: every apply_configs PUT differs from the fetched metadata in a
\* mutable key, holds no key but config, description and (for a pool) the
\* driver with its fetched value, and overrides a mutable key exactly when
\* the decision found that key changed, carrying the fetched value of the
\* others; the body a dry run reports is held to the same.
C35_PutNeverNoOp ==
    \A body \in {calls[i].body : i \in Puts}
                \cup (IF Logged("apply_configs") THEN {diff.after} ELSE {}) :
        /\ \E a \in Mutable : Overrides(body, a)
        /\ DOMAIN body \subseteq Attributes
        /\ "driver" \in DOMAIN body => CarriesObserved(body, "driver")
        /\ \A a \in Mutable :
              /\ Overrides(body, a) <=> DetectedAsChanged(a)
              /\ Overrides(body, a) => body[a] = IF a = "config" THEN MergedConfig
                                                 ELSE params[a]
              /\ ~Overrides(body, a) => CarriesObserved(body, a)

\* a pool PUT that overrides the config and carries the fetched description
\* and driver, the metadata holding a key that is not sent
C35_Witness ==
    /\ kind = "pool"
    /\ \E i \in Puts :
          /\ calls[i].ok
          /\ Overrides(calls[i].body, "config")
          /\ ~Overrides(calls[i].body, "description")
          /\ "driver" \in DOMAIN calls[i].body
    /\ DOMAIN ObservedMetadata \ Attributes # {}

(***************************************************************************)
(* C36: a failure to construct the transport client is reported as a       *)
(* structured fatal failure, for the pool reconciler as for the volume     *)
(* reconciler: the run ends with a failure report carrying the client's    *)
(* message, with no network call issued, and never in an unhandled error   *)
(* raised by the failure handler reading state that __init__ has not yet   *)
(* assigned.                                                               *)
(***************************************************************************)
ConstructionFailed ==
    /\ pc \in {"failed", "crashed"}
    /\ calls = <<>>
    /\ report # [via |-> "fail_json", msg |-> Unsupported_msg]

C36_ConstructionFailureReported ==
    /\ ~Crashed
    /\ ConstructionFailed =>
          /\ report.via = "fail_json"
          /\ report.msg = Construction_msg
          /\ calls = <<>>

\* the volume reconciler's half of C36 does happen: fail_json(msg=e.msg)
C36_VolumeReported ==
    (kind = "volume" /\ ConstructionFailed) =>
        report = [via |-> "fail_json", msg |-> Construction_msg]

(***************************************************************************)
(* C37: every run terminates with exactly one report, a success report or  *)
(* a failure report, after at most one authenticate, one fetch and two     *)
(* write calls; no network call is issued after the report has been        *)
(* produced, and a success report is produced only if no call of the run   *)
(* failed.                                                                 *)
(***************************************************************************)
\* a step of the invocation in progress: main() runs to its end once started
RunStep ==
    \/ UnsupportedParameters
    \/ ClientConstructionFails
    \/ Authenticate
    \/ Fetch
    \/ Pool_create_storage_pool
    \/ Pool_delete_storage_pool
    \/ Pool_apply_storage_pool_configs
    \/ Volume_create_storage_volume
    \/ Volume_delete_storage_volume
    \/ Volume_migrate_storage_volume
    \/ Volume_apply_storage_volume_configs
    \/ ExitJson

\* the interpreter executes the statements of a started run one after the
\* other; whether the module is invoked again is left open
LiveSpec == Spec /\ WF_vars(RunStep)

ReportProduced == report.via \in {"exit_json", "fail_json"}

CallBudget ==
    /\ Cardinality(AuthCalls) <= 1
    /\ Cardinality(GetCalls) <= 1
    /\ Len(Writes(calls)) <= 2

\* the report is there exactly when the run has ended, and it is a success
\* report only after calls that all succeeded
OneReportAtTheEnd ==
    /\ ReportProduced <=> (Finished \/ Crashed)
    /\ report.via \in {"none", "exit_json", "fail_json"}
    /\ report.via = "exit_json" => AllCallsOk

\* once produced, the report stands and no call follows it in that run
ReportIsFinal ==
    ReportProduced => \/ report' = report /\ calls' = calls
                \/ invocation' = invocation + 1

C37_OneReportPerRun ==
    /\ [](CallBudget /\ OneReportAtTheEnd)
    /\ [][ReportIsFinal]_vars
    /\ (pc = "run") ~> ReportProduced

\* the pool's failed client construction (C36) apart, all of C37 holds
OneReportUnlessCrashed ==
    /\ ReportProduced <=> Finished
    /\ Crashed => kind = "pool" /\ report = Pool_construction_failure /\ calls = <<>>
    /\ report.via = "exit_json" => AllCallsOk

C37_ApartFromConstruction ==
    /\ [](CallBudget /\ OneReportUnlessCrashed)
    /\ [][ReportIsFinal]_vars
    /\ (pc = "run") ~> (ReportProduced \/ Crashed)

====
